---- MODULE Spec2Model ----
(***************************************************************************)
(* Sprite controller (src/script.js): a side-scrolling world, a character  *)
(* that walks toward pointer targets, jumps and throws a star, a camera    *)
(* that follows it, and an animation loop started once every frame image   *)
(* has loaded.                                                             *)
(*                                                                         *)
(* Units.  Every length (x, y, targets, camera, canvas size, velocities)   *)
(* is an integer number of TENTHS of a pixel, so that gravity = 1.2 px and *)
(* half an odd canvas width are exact.  Times are integer milliseconds.    *)
(***************************************************************************)
EXTENDS Integers, Sequences, FiniteSets, TLC

\* Model units per pixel (gravity = 1.2 needs tenths).
Unit == 10

----------------------------------------------------------------------------
\* Program constants

cellSize == 80 * Unit
WORLD_COLS == 60
WORLD_ROWS == 12
groundY == (WORLD_ROWS - 2) * cellSize + cellSize \div 2
worldWidth == WORLD_COLS * cellSize
worldHeight == WORLD_ROWS * cellSize
frameInterval == 250
speed == 5 * Unit
gravity == (12 * Unit) \div 10
jumpStrength == 22 * Unit
throwDuration == 400
doubleTapWindow == 300
starSpeed == 12 * Unit
startX == (WORLD_COLS \div 2) * cellSize

\* framePaths: number of paths per animation category.
Categories == {"front", "back", "side", "jump", "throw"}
framePaths == [k \in Categories |->
                 CASE k = "front" -> 3
                   [] k = "back"  -> 3
                   [] k = "side"  -> 2
                   [] k = "jump"  -> 1
                   [] k = "throw" -> 1]
\* for (const key in framePaths): the order in which the keys are visited.
KeyOrder == <<"front", "back", "side", "jump", "throw">>
totalFrames == framePaths["front"] + framePaths["back"] + framePaths["side"]
               + framePaths["jump"] + framePaths["throw"]

----------------------------------------------------------------------------
\* Arithmetic helpers (Math.abs, Math.min, Math.max)

Abs(n) == IF n < 0 THEN -n ELSE n
Min(a, b) == IF a < b THEN a ELSE b
Max(a, b) == IF a > b THEN a ELSE b

----------------------------------------------------------------------------
\* Bounds of the model and the inputs drawn by the specifications

\* Spec: the clock stops the run at MaxTime ms, after at most MaxTicks frames
\* and MaxEvents pointer events.
MaxTime == 1000
MaxTicks == 24
MaxEvents == 3
\* JumpFairSpec: taps come no later than JumpTapDeadline ms, and at most
\* JumpMaxTicks frames are drawn (a jump lasts 20 of them).
JumpMaxTicks == 22
JumpTapDeadline == 1000
\* EdgeSpec: walk commands, then a walk across half the world. At most
\* EdgeMaxEvents pointer events come, no later than EdgeTapDeadline ms, and
\* frames are drawn up to EdgeMaxTime ms.
EdgeMaxTime == 10000
EdgeTapDeadline == 400
EdgeMaxEvents == 2
EdgeWidths == {4700, 4800}
\* Pointer positions (pixels) on a canvas w tenths of a pixel wide.
EdgeXs(w) == {0, 100, w \div Unit - 1}
EdgeYs == {400}
\* FacingSpec: displacements probed, in tenths of a pixel.
MaxProbe == 7
\* ThrowSpec: taps 100 or 300 ms after the previous event, up to ThrowMaxTime
\* ms, at most ThrowMaxEvents pointer events and ThrowMaxTicks frames.
ThrowMaxTime == 1000
ThrowMaxEvents == 3
ThrowMaxTicks == 8
ThrowTapDts == {100, 300}
ThrowXs == {188, 210}
\* StarSpec: taps up to StarTapDeadline ms, then frames until every star has
\* left the world: at most StarMaxTicks of them.
StarTapDeadline == 500
StarMaxTicks == 210
\* CameraSpec: the window is resized among these sizes (pixels; the world is
\* 4800 x 960), with at most CamMaxEvents pointer events and CamMaxTicks frames.
CamMaxEvents == 2
CamMaxTicks == 6
CamWidths == {401, 5000}
CamHeights == {300, 1200}
\* LoadSpec: the frames load in any order, the jump and throw images may be
\* missing; at most LoadMaxEvents pointer events and LoadMaxTicks frames.
LoadMaxEvents == 2
LoadMaxTicks == 3
MissingSets == {{}, {"jump"}, {"throw"}, {"jump", "throw"}}
\* FrameSpec: frames 50 or 130 ms after the previous event, so that a frame
\* comes exactly frameInterval ms after the last frame change.
FrameMaxTime == 1500
FrameMaxEvents == 2
FrameTickDts == {50, 130}
\* RoomSpec: the wall and floor images settle at any moment; a viewport as
\* wide as the world shows the walls from the first frame on.
RoomMaxTicks == 4
RoomMaxEvents == 1
RoomWidths == {400, 4800}

\* Milliseconds between animation frames (a 50 Hz display).
TickDts == {20}
\* Milliseconds a pointer-down comes after the previous event.
TapDts == {300}
\* Viewport sizes (pixels) the window can have.
Widths == {400}
Heights == {600}
\* Pointer positions (pixels, relative to the canvas).
ClientXs == {188, 200, 210}
ClientYs == {100, 400}
\* Positions of a pointer-move.
MoveXs == {188}

VARIABLES
  images,        \* category -> sequence of loaded frames (path indices)
  missing,       \* categories whose image files do not exist (never load)
  loadedCount,
  rafPending,    \* a draw callback is scheduled with requestAnimationFrame
  rafCount,      \* draw callbacks requested and not yet run
  wallImg, floorImg,   \* "pending" | "loaded" | "broken"
  imageCheckedFirst,   \* the browser's drawImage checks the state of the
                       \* image before it checks its numeric arguments
  canvasW, canvasH,
  camX, camY,
  x, y, targetX, targetY, facing,
  frameIndex, lastFrameTime,
  pointerActive,
  isJumping, vy,
  isThrowing, throwTimer,
  lastTapTime,
  star,          \* [active, x, y, vx]
  now,           \* performance.now() / the animation frame timestamp
  \* observations of the last handler that ran
  img,           \* frame drawn by the last draw: <<category, index, mirrored>>
  starAge,       \* <<star.x when it was spawned, draws since>>
  worldX,        \* <<setTarget's proposed world x before clamping, its screenX>>
  lastOp,        \* the handler that ran last
  x0, y0,        \* the sprite's x, y right after the last pointer event
  ticksSince,    \* draws since the last pointer event
  jumpTicks,     \* draws while the current jump has been in progress
  ticks,         \* draws so far
  events,        \* pointer events so far
  tapY,          \* <<clientY of the last pointer-down>>
  throwStart,    \* <<timestamp of the startThrow that began the last pose>>
  roomUse,       \* room images the last drawRoom scaled and passed to drawImage
  probe          \* FacingSpec: [dx, dy, facing] of a determineFacing call

vars == <<images, missing, loadedCount, rafPending, wallImg, floorImg,
          canvasW, canvasH, starAge,
          camX, camY, x, y, targetX, targetY, facing, frameIndex,
          lastFrameTime, pointerActive, isJumping, vy, isThrowing, throwTimer,
          lastTapTime, star, now, img, worldX, lastOp, x0, y0, ticksSince,
          jumpTicks, ticks, events, tapY, throwStart, roomUse, rafCount,
          imageCheckedFirst, probe>>

None == "none"
\* No frame selected yet / an undefined frame; no target proposed yet.
NoFrame == <<>>
NoProposal == <<>>
NoSpawn == <<>>
NoTap == <<>>
NoThrow == <<>>

----------------------------------------------------------------------------
\* Pure functions of the program

\* Variant: a tie |dx| = |dy| takes the horizontal branch.
determineFacing_TieHorizontal(dx, dy) ==
  IF Abs(dx) >= Abs(dy)
    THEN (IF dx >= 0 THEN "right" ELSE "left")
    ELSE (IF dy >= 0 THEN "front" ELSE "back")

\* determineFacing(dx, dy)
determineFacing(dx, dy) ==
  IF Abs(dx) > Abs(dy)
    THEN (IF dx >= 0 THEN "right" ELSE "left")
    ELSE (IF dy >= 0 THEN "front" ELSE "back")

\* Variant: dx > 0 ? 'right' : 'left'.
horizontalFacing_Strict(dx) == IF dx > 0 THEN "right" ELSE "left"

\* dx >= 0 ? 'right' : 'left'  (setTarget and updatePosition)
horizontalFacing(dx) == IF dx >= 0 THEN "right" ELSE "left"

\* Variants: the lower bound, the upper bound is not applied.
clampToWorld_NoLower(tx, ty) ==
  [x |-> Min(tx, worldWidth - cellSize), y |-> groundY]
clampToWorld_NoUpper(tx, ty) ==
  [x |-> Max(tx, cellSize), y |-> groundY]

\* clampToWorld(tx, ty): x into [cellSize, worldWidth - cellSize], y = groundY
clampToWorld(tx, ty) ==
  LET minX == cellSize
      maxX == worldWidth - cellSize
      clampedX == Min(Max(tx, minX), maxX)
  IN  [x |-> clampedX, y |-> groundY]

\* setTarget(e): the new target, the new facing, and the local worldX.
\* screenX = e.clientX - rect.left; cam is camX; px is the sprite's x.
setTarget(screenX, cam, px) ==
  LET wx == cam + screenX
      clamped == clampToWorld(wx, groundY)
      dx == clamped.x - px
  IN  [targetX |-> clamped.x, targetY |-> clamped.y,
       facing |-> horizontalFacing(dx), worldX |-> wx]

\* Variant: a jump request relaunches the sprite in mid-air.
startJump_Relaunch(jumping, v) == [isJumping |-> TRUE, vy |-> -jumpStrength]

\* startJump(): the new isJumping and vy.
startJump(jumping, v) ==
  IF ~jumping
    THEN [isJumping |-> TRUE, vy |-> -jumpStrength]
    ELSE [isJumping |-> jumping, vy |-> v]

\* Variant: the star flies right only when the sprite faces right.
startThrow_RightOnly(throwing, timer, s, px, py, f) ==
  IF ~throwing
    THEN [isThrowing |-> TRUE, throwTimer |-> 0,
          star |-> [active |-> TRUE, x |-> px,
                    y |-> py - (cellSize * 3) \div 10,
                    vx |-> IF f = "right" THEN starSpeed ELSE -starSpeed]]
    ELSE [isThrowing |-> throwing, throwTimer |-> timer, star |-> s]

\* Variant: a throw request restarts a pose in progress.
startThrow_Restart(throwing, timer, s, px, py, f) ==
  [isThrowing |-> TRUE, throwTimer |-> 0,
   star |-> [active |-> TRUE, x |-> px,
             y |-> py - (cellSize * 3) \div 10,
             vx |-> IF f = "left" THEN -starSpeed ELSE starSpeed]]

\* startThrow(): the new isThrowing, throwTimer and star.
startThrow(throwing, timer, s, px, py, f) ==
  IF ~throwing
    THEN [isThrowing |-> TRUE, throwTimer |-> 0,
          star |-> [active |-> TRUE, x |-> px,
                    y |-> py - (cellSize * 3) \div 10,
                    vx |-> IF f = "left" THEN -starSpeed ELSE starSpeed]]
    ELSE [isThrowing |-> throwing, throwTimer |-> timer, star |-> s]

\* Variant: the facing is recomputed at distance 0 too.
seekFacing_Always(px, tx, f) == horizontalFacing(tx - px)

\* updatePosition, horizontal part: the facing while moving.
seekFacing(px, tx, f) ==
  LET dx == tx - px
      absDx == Abs(dx)
  IN  IF absDx > 0 THEN horizontalFacing(dx) ELSE f

\* Variant: no snap; a full step is taken whenever the target is not reached.
stepToward_NoSnap(px, tx) ==
  IF tx = px THEN px ELSE IF tx < px THEN px - speed ELSE px + speed

\* updatePosition, horizontal part: one step of `speed` toward the target, or
\* a snap onto it (before the clamp).
stepToward(px, tx) ==
  LET dx == tx - px
      absDx == Abs(dx)
      sign == IF dx < 0 THEN -1 ELSE 1
  IN  IF absDx > speed THEN px + sign * speed ELSE tx

\* Variants: landing keeps the velocity; gravity is never added.
jumpStep_KeepVelocity(py, v, jumping) ==
  IF jumping
    THEN (IF py + v >= groundY
            THEN [y |-> groundY, vy |-> v + gravity, isJumping |-> FALSE]
            ELSE [y |-> py + v, vy |-> v + gravity, isJumping |-> TRUE])
    ELSE [y |-> py, vy |-> v, isJumping |-> FALSE]
jumpStep_NoGravity(py, v, jumping) ==
  IF jumping
    THEN (IF py + v >= groundY
            THEN [y |-> groundY, vy |-> 0, isJumping |-> FALSE]
            ELSE [y |-> py + v, vy |-> v, isJumping |-> TRUE])
    ELSE [y |-> py, vy |-> v, isJumping |-> FALSE]

\* updatePosition, vertical part. py is y as the clamp has just set it
\* (y = clamped.y); the jump code then adds vy to it.
jumpStep(py, v, jumping) ==
  LET y1 == py + v
      v1 == v + gravity
  IN  IF jumping
        THEN (IF y1 >= groundY
                THEN [y |-> groundY, vy |-> 0, isJumping |-> FALSE]
                ELSE [y |-> y1, vy |-> v1, isJumping |-> TRUE])
        ELSE [y |-> py, vy |-> v, isJumping |-> FALSE]

\* Variant: the star expires on reaching the edge of the world.
starStep_Inclusive(s) ==
  IF s.active
    THEN LET nx == s.x + s.vx
         IN  [s EXCEPT !.x = nx,
                       !.active = ~(nx <= 0 \/ nx >= WORLD_COLS * cellSize)]
    ELSE s

\* updatePosition, projectile part.
starStep(s) ==
  IF s.active
    THEN LET nx == s.x + s.vx
         IN  [s EXCEPT !.x = nx,
                       !.active = ~(nx < 0 \/ nx > WORLD_COLS * cellSize)]
    ELSE s

\* Variant: the sprite does not walk while it is in the air.
updatePosition_HoldInAir(px, py, tx, f, jumping, v, s) ==
  LET clamped == clampToWorld(IF jumping THEN px ELSE stepToward(px, tx), py)
      j == jumpStep(clamped.y, v, jumping)
  IN  [x |-> clamped.x, facing |-> IF jumping THEN f ELSE seekFacing(px, tx, f),
       y |-> j.y, vy |-> j.vy, isJumping |-> j.isJumping,
       star |-> starStep(s)]

\* Variant: the facing follows the dominant axis of the whole displacement
\* to the target (tx, groundY).
updatePosition_Dominance(px, py, tx, f, jumping, v, s) ==
  LET clamped == clampToWorld(stepToward(px, tx), py)
      j == jumpStep(clamped.y, v, jumping)
  IN  [x |-> clamped.x,
       facing |-> IF tx # px \/ groundY # py
                    THEN determineFacing(tx - px, groundY - py) ELSE f,
       y |-> j.y, vy |-> j.vy, isJumping |-> j.isJumping,
       star |-> starStep(s)]

\* updatePosition(): every variable it assigns.
updatePosition(px, py, tx, f, jumping, v, s) ==
  LET clamped == clampToWorld(stepToward(px, tx), py)
      j == jumpStep(clamped.y, v, jumping)
  IN  [x |-> clamped.x, facing |-> seekFacing(px, tx, f),
       y |-> j.y, vy |-> j.vy, isJumping |-> j.isJumping,
       star |-> starStep(s)]

\* Variant: the jump frame is preferred to the throw frame.
selectFrame_JumpFirst(throwing, jumping, f, fi, frames) ==
  LET directional(k) ==
        IF Len(frames[k]) = 0 THEN NoFrame ELSE <<k, fi % Len(frames[k])>>
  IN  IF jumping /\ Len(frames["jump"]) > 0 THEN <<"jump", 0>>
      ELSE IF throwing /\ Len(frames["throw"]) > 0 THEN <<"throw", 0>>
      ELSE IF f = "right" \/ f = "left" THEN directional("side")
      ELSE IF f = "front" THEN directional("front")
      ELSE directional("back")

\* draw(): the frame chosen for the sprite. `frames` is images; the result
\* is <<category, index>>, or NoFrame when the chosen list is empty (undefined).
selectFrame(throwing, jumping, f, fi, frames) ==
  LET directional(k) ==
        IF Len(frames[k]) = 0 THEN NoFrame ELSE <<k, fi % Len(frames[k])>>
  IN  IF throwing /\ Len(frames["throw"]) > 0 THEN <<"throw", 0>>
      ELSE IF jumping /\ Len(frames["jump"]) > 0 THEN <<"jump", 0>>
      ELSE IF f = "right" \/ f = "left" THEN directional("side")
      ELSE IF f = "front" THEN directional("front")
      ELSE directional("back")

\* draw(): the sprite image is flipped horizontally when facing left.
mirrored(f) == f = "left"

\* Variant: a frame also changes after exactly frameInterval ms.
frameDue_Inclusive(delta) == delta >= frameInterval

\* draw(): the animation frame changes when more than frameInterval ms have
\* passed since the last change.
frameDue(delta) == delta > frameInterval

\* Variant: the offset is not held at 0 when the viewport exceeds the world.
cameraOffset_NoFloor(pos, viewport, world) ==
  Min(pos - viewport \div 2, world - viewport)

\* draw(): the camera offset on one axis, centred on the sprite and clamped.
cameraOffset(pos, viewport, world) ==
  Max(0, Min(pos - viewport \div 2, world - viewport))

\* drawRoom(): the columns and rows it visits for this camera.
CeilDiv(a, b) == (a + b - 1) \div b
visibleCols(cx, w) ==
  Max(0, cx \div cellSize - 1) .. Min(WORLD_COLS - 1, CeilDiv(cx + w, cellSize) + 1)
visibleRows(cy, h) ==
  Max(0, cy \div cellSize - 1) .. Min(WORLD_ROWS - 1, CeilDiv(cy + h, cellSize) + 1)
isWall(col) == col = 0 \/ col = WORLD_COLS - 1
\* drawRoom(): the cells it calls ctx.drawImage for, wall cells (first and
\* last column, every visible row) and floor cells (the floor row, the other
\* columns); the loops visit them row by row, each row left to right.
wallCells(cx, cy, w, h) ==
  visibleRows(cy, h) \X {col \in visibleCols(cx, w) : isWall(col)}
floorCells(cx, cy, w, h) ==
  (visibleRows(cy, h) \cap {WORLD_ROWS - 2})
    \X {col \in visibleCols(cx, w) : ~isWall(col)}
cellOrder(cell) == cell[1] * WORLD_COLS + cell[2]
cellImage(cell) == IF isWall(cell[2]) THEN "wall" ELSE "floor"
\* ctx.drawImage throws InvalidStateError for an image in the broken state,
\* unless it has returned before for an argument that is not finite.  The
\* floor image is drawn with finite arguments.  The wall image that failed
\* to load has width 0: wallScale = cellSize / 0 is Infinity, scaledHeight
\* = 0 * Infinity is NaN, and drawImage throws only if it checks the image
\* before the arguments (`first`).  A pending image is not drawn, silently.
drawImageThrows(name, wall, floor, first) ==
  \/ name = "wall" /\ wall = "broken" /\ first
  \/ name = "floor" /\ floor = "broken"
throwingCells(cx, cy, w, h, wall, floor, first) ==
  (IF drawImageThrows("wall", wall, floor, first)
     THEN wallCells(cx, cy, w, h) ELSE {})
  \cup (IF drawImageThrows("floor", wall, floor, first)
          THEN floorCells(cx, cy, w, h) ELSE {})
\* drawRoom(): the cells whose drawImage call is made: all of them, or, when
\* a call throws, those up to and including the first that throws.
reachedCells(cx, cy, w, h, wall, floor, first) ==
  LET cells == wallCells(cx, cy, w, h) \cup floorCells(cx, cy, w, h)
      bad == throwingCells(cx, cy, w, h, wall, floor, first)
  IN  IF bad = {}
        THEN cells
        ELSE {cell \in cells :
                \A b \in bad : cellOrder(cell) <= cellOrder(b)}
\* drawRoom(): the images whose size it reads and which it hands to
\* ctx.drawImage, whatever their loading state.
roomImagesUsed(cx, cy, w, h, wall, floor, first) ==
  {cellImage(cell) : cell \in reachedCells(cx, cy, w, h, wall, floor, first)}
\* drawRoom() ends with an exception.
drawRoomThrows(cx, cy, w, h, wall, floor, first) ==
  throwingCells(cx, cy, w, h, wall, floor, first) # {}

----------------------------------------------------------------------------
\* The state after the script has run: nothing loaded, the sprite at the
\* centre of the world on the ground, the canvas sized by resize().

SpriteInit(w, h) ==
  /\ wallImg = "pending"
  /\ floorImg = "pending"
  /\ canvasW = w * Unit
  /\ canvasH = h * Unit
  /\ camX = 0
  /\ camY = 0
  /\ x = startX
  /\ y = groundY
  /\ targetX = startX
  /\ targetY = groundY
  /\ facing = "front"
  /\ frameIndex = 0
  /\ lastFrameTime = 0
  /\ pointerActive = FALSE
  /\ isJumping = FALSE
  /\ vy = 0
  /\ isThrowing = FALSE
  /\ throwTimer = 0
  /\ lastTapTime = 0
  /\ star = [active |-> FALSE, x |-> 0, y |-> 0, vx |-> 0]
  /\ now = 0
  /\ img = NoFrame
  /\ starAge = NoSpawn
  /\ tapY = NoTap
  /\ throwStart = NoThrow
  /\ roomUse = {}
  /\ worldX = NoProposal
  /\ x0 = startX
  /\ y0 = groundY
  /\ ticksSince = 0
  /\ jumpTicks = 0
  /\ ticks = 0
  /\ events = 0

\* The state when the script has run: no frame has loaded yet.
InitWithOrder(w, h, first) ==
  /\ images = [k \in Categories |-> <<>>]
  /\ missing = {}
  /\ loadedCount = 0
  /\ rafPending = FALSE
  /\ rafCount = 0
  /\ lastOp = "init"
  /\ imageCheckedFirst = first
  /\ SpriteInit(w, h)

\* The same in a browser that checks the image first; the order matters only
\* once the wall image has failed to load (RoomSpec).
InitWith(w, h) == InitWithOrder(w, h, TRUE)

\* The state when the last frame has loaded, before any other event: the
\* first draw is scheduled.
LoadedWith(w, h) ==
  /\ images = [k \in Categories |-> [i \in 1..framePaths[k] |-> i]]
  /\ missing = {}
  /\ loadedCount = totalFrames
  /\ rafPending = TRUE
  /\ rafCount = 1
  /\ lastOp = "load"
  /\ imageCheckedFirst = TRUE
  /\ SpriteInit(w, h)

Init == \E w \in Widths, h \in Heights : InitWith(w, h) /\ probe = None

loadVars == <<images, missing, loadedCount, wallImg, floorImg,
              imageCheckedFirst>>
viewVars == <<canvasW, canvasH, camX, camY>>
walkVars == <<targetX, targetY, facing, worldX>>
jumpVars == <<isJumping, vy, jumpTicks>>
throwVars == <<isThrowing, throwTimer, star, starAge, throwStart>>
animVars == <<frameIndex, lastFrameTime, img, roomUse>>

\* Variant: every load requests an animation frame.
onFrameLoaded_EveryLoad(count, pending) ==
  [loadedCount |-> count + 1, rafPending |-> TRUE, requests |-> 1]

\* Variant: the loop starts when as many frames as there are walking frames
\* have loaded.
onFrameLoaded_WalkingCount(count, pending) ==
  LET c == count + 1
  IN  [loadedCount |-> c,
       rafPending |-> IF c = totalFrames - 2 THEN TRUE ELSE pending,
       requests |-> IF c = totalFrames - 2 THEN 1 ELSE 0]

\* onFrameLoaded(): the new loadedCount, whether a draw is scheduled, and
\* the number of requestAnimationFrame calls made.
onFrameLoaded(count, pending) ==
  LET c == count + 1
  IN  [loadedCount |-> c,
       rafPending |-> IF c = totalFrames THEN TRUE ELSE pending,
       requests |-> IF c = totalFrames THEN 1 ELSE 0]

\* Variant: a loaded frame is stored at the place of its path.
ImageLoaded_AtPathIndex(k, i) ==
  /\ k \notin missing
  /\ i \in 1..framePaths[k]
  /\ \A n \in 1..Len(images[k]) : images[k][n] # i
  /\ images' = [images EXCEPT ![k] =
                  SelectSeq(@, LAMBDA e : e < i) \o <<i>>
                    \o SelectSeq(@, LAMBDA e : e > i)]
  /\ LET l == onFrameLoaded(loadedCount, rafPending)
     IN  /\ loadedCount' = l.loadedCount
         /\ rafPending' = l.rafPending
         /\ rafCount' = rafCount + l.requests
  /\ lastOp' = "load"
  /\ UNCHANGED <<missing, wallImg, floorImg, imageCheckedFirst, viewVars, x,
                 y, walkVars, jumpVars, throwVars, animVars, pointerActive,
                 lastTapTime, tapY, now, x0, y0, ticksSince, ticks, events,
                 probe>>

----------------------------------------------------------------------------
\* img.onload of frame i of category k: push the frame, count it, and start
\* the animation loop when the count reaches totalFrames.

ImageLoaded(k, i) ==
  /\ k \notin missing
  /\ i \in 1..framePaths[k]
  /\ \A n \in 1..Len(images[k]) : images[k][n] # i
  /\ images' = [images EXCEPT ![k] = Append(@, i)]
  /\ LET l == onFrameLoaded(loadedCount, rafPending)
     IN  /\ loadedCount' = l.loadedCount
         /\ rafPending' = l.rafPending
         /\ rafCount' = rafCount + l.requests
  /\ lastOp' = "load"
  /\ UNCHANGED <<missing, wallImg, floorImg, imageCheckedFirst, viewVars, x,
                 y, walkVars, jumpVars, throwVars, animVars, pointerActive,
                 lastTapTime, tapY, now, x0, y0, ticksSince, ticks, events,
                 probe>>

\* The loads complete in the order of the paths in framePaths.
InPathOrder(k, i) ==
  /\ i = Len(images[k]) + 1
  /\ \A n \in 1..Len(KeyOrder) :
       KeyOrder[n] = k =>
         \A m \in 1..(n - 1) : Len(images[KeyOrder[m]]) = framePaths[KeyOrder[m]]

----------------------------------------------------------------------------
\* Pointer events.  Each restarts the observations x0, y0 and ticksSince.

Observe(op) == /\ lastOp' = op
               /\ x0' = x
               /\ y0' = y
               /\ ticksSince' = 0
               /\ events' = events + 1
               /\ ticks' = ticks

\* pointerdown less than 300 ms after the previous one: startThrow().
PointerDownThrow(dt, cx, cy) ==
  /\ (now + dt) - lastTapTime < doubleTapWindow
  /\ LET t == startThrow(isThrowing, throwTimer, star, x, y, facing)
     IN  /\ isThrowing' = t.isThrowing
         /\ throwTimer' = t.throwTimer
         /\ star' = t.star
         /\ starAge' = IF isThrowing THEN starAge ELSE <<t.star.x, 0>>
         /\ throwStart' = IF isThrowing THEN throwStart ELSE <<now + dt>>
  /\ pointerActive' = FALSE
  /\ now' = now + dt
  /\ lastTapTime' = now'
  /\ tapY' = <<cy>>
  /\ UNCHANGED <<loadVars, rafPending, rafCount, viewVars, x, y, walkVars,
                 jumpVars, animVars, probe>>
  /\ Observe("throw")

\* Variant: the jump request lifts the sprite at once.
PointerDownJump_Hop(dt, cx, cy) ==
  /\ ~((now + dt) - lastTapTime < doubleTapWindow)
  /\ cy * Unit * 100 < canvasH * 35
  /\ LET j == startJump(isJumping, vy)
     IN  /\ isJumping' = j.isJumping
         /\ vy' = j.vy
         /\ y' = IF isJumping THEN y ELSE y + j.vy
         /\ jumpTicks' = IF isJumping THEN jumpTicks ELSE 0
  /\ pointerActive' = FALSE
  /\ now' = now + dt
  /\ lastTapTime' = now'
  /\ tapY' = <<cy>>
  /\ UNCHANGED <<loadVars, rafPending, rafCount, viewVars, x, walkVars,
                 throwVars, animVars, probe>>
  /\ Observe("jump")

\* pointerdown in the top 35% of the canvas: startJump().
PointerDownJump(dt, cx, cy) ==
  /\ ~((now + dt) - lastTapTime < doubleTapWindow)
  /\ cy * Unit * 100 < canvasH * 35
  /\ LET j == startJump(isJumping, vy)
     IN  /\ isJumping' = j.isJumping
         /\ vy' = j.vy
         /\ jumpTicks' = IF isJumping THEN jumpTicks ELSE 0
  /\ pointerActive' = FALSE
  /\ now' = now + dt
  /\ lastTapTime' = now'
  /\ tapY' = <<cy>>
  /\ UNCHANGED <<loadVars, rafPending, rafCount, viewVars, x, y, walkVars,
                 throwVars, animVars, probe>>
  /\ Observe("jump")

\* any other pointerdown: a walk command.
PointerDownWalk(dt, cx, cy) ==
  /\ ~((now + dt) - lastTapTime < doubleTapWindow)
  /\ ~(cy * Unit * 100 < canvasH * 35)
  /\ pointerActive' = TRUE
  /\ LET s == setTarget(cx * Unit, camX, x)
     IN  /\ targetX' = s.targetX
         /\ targetY' = s.targetY
         /\ facing' = s.facing
         /\ worldX' = <<s.worldX, cx * Unit>>
  /\ now' = now + dt
  /\ lastTapTime' = now'
  /\ tapY' = <<cy>>
  /\ UNCHANGED <<loadVars, rafPending, rafCount, viewVars, x, y, jumpVars,
                 throwVars, animVars, probe>>
  /\ Observe("walk")

PointerDown(dt, cx, cy) ==
  \/ PointerDownThrow(dt, cx, cy)
  \/ PointerDownJump(dt, cx, cy)
  \/ PointerDownWalk(dt, cx, cy)

\* Variant: every pointer-move retargets.
PointerMove_Always(cx) ==
  /\ LET s == setTarget(cx * Unit, camX, x)
     IN  /\ targetX' = s.targetX
         /\ targetY' = s.targetY
         /\ facing' = s.facing
         /\ worldX' = <<s.worldX, cx * Unit>>
  /\ UNCHANGED <<loadVars, rafPending, rafCount, viewVars, x, y, jumpVars,
                 throwVars, animVars, pointerActive, lastTapTime, tapY, now,
                 probe>>
  /\ Observe("move")

\* pointermove: retarget while a walk pointer is held.
PointerMove(cx) ==
  /\ IF pointerActive
       THEN LET s == setTarget(cx * Unit, camX, x)
            IN  /\ targetX' = s.targetX
                /\ targetY' = s.targetY
                /\ facing' = s.facing
                /\ worldX' = <<s.worldX, cx * Unit>>
       ELSE UNCHANGED walkVars
  /\ UNCHANGED <<loadVars, rafPending, rafCount, viewVars, x, y, jumpVars,
                 throwVars, animVars, pointerActive, lastTapTime, tapY, now,
                 probe>>
  /\ Observe("move")

\* pointerup and pointercancel.
PointerUp ==
  /\ pointerActive' = FALSE
  /\ UNCHANGED <<loadVars, rafPending, rafCount, viewVars, x, y, walkVars,
                 jumpVars, throwVars, animVars, lastTapTime, tapY, now,
                 probe>>
  /\ Observe("up")

PointerCancel ==
  /\ pointerActive' = FALSE
  /\ UNCHANGED <<loadVars, rafPending, rafCount, viewVars, x, y, walkVars,
                 jumpVars, throwVars, animVars, lastTapTime, tapY, now,
                 probe>>
  /\ Observe("cancel")

\* The wall or floor image finishes loading, or fails to load.
RoomImageSettled(r, state) ==
  /\ r \in {"wall", "floor"} /\ state \in {"loaded", "broken"}
  /\ IF r = "wall"
       THEN wallImg = "pending" /\ wallImg' = state /\ floorImg' = floorImg
       ELSE floorImg = "pending" /\ floorImg' = state /\ wallImg' = wallImg
  /\ lastOp' = "room"
  /\ UNCHANGED <<images, missing, loadedCount, rafPending, rafCount,
                 imageCheckedFirst, viewVars, x, y, walkVars, jumpVars,
                 throwVars, animVars, pointerActive, lastTapTime, tapY, now,
                 x0, y0, ticksSince, ticks, events, probe>>

\* window resize: resize().
Resize(w, h) ==
  /\ canvasW' = w * Unit
  /\ canvasH' = h * Unit
  /\ lastOp' = "resize"
  /\ UNCHANGED <<loadVars, rafPending, rafCount, camX, camY, x, y, walkVars,
                 jumpVars, throwVars, animVars, pointerActive, lastTapTime,
                 tapY, now, x0, y0, ticksSince, ticks, events, probe>>

----------------------------------------------------------------------------
\* draw(time): one animation frame, dt ms after the previous event.

Tick(dt) ==
  /\ rafPending
  /\ now' = now + dt
  /\ LET time == now + dt
         up == updatePosition(x, y, targetX, facing, isJumping, vy, star)
         delta == time - lastFrameTime
         advance == frameDue(delta)
         fi == IF advance THEN frameIndex + 1 ELSE frameIndex
         throwBranch == isThrowing /\ Len(images["throw"]) > 0
         timer == IF throwBranch THEN throwTimer + delta ELSE throwTimer
         chosen == selectFrame(isThrowing, up.isJumping, up.facing, fi, images)
         cx == cameraOffset(up.x, canvasW, worldWidth)
         cy == cameraOffset(up.y, canvasH, worldHeight)
     IN  /\ x' = up.x
         /\ y' = up.y
         /\ facing' = up.facing
         /\ isJumping' = up.isJumping
         /\ vy' = up.vy
         /\ frameIndex' = fi
         /\ lastFrameTime' = IF advance THEN time ELSE lastFrameTime
         /\ throwTimer' = timer
         /\ isThrowing' = IF throwBranch /\ timer > throwDuration
                            THEN FALSE ELSE isThrowing
         /\ star' = up.star
         /\ starAge' = IF star.active
                          THEN <<starAge[1], starAge[2] + 1>> ELSE starAge
         /\ camX' = cx
         /\ camY' = cy
         \* drawRoom() reads the camera just set
         /\ roomUse' = roomImagesUsed(camX', camY', canvasW, canvasH,
                                      wallImg, floorImg, imageCheckedFirst)
         /\ LET roomThrows == drawRoomThrows(camX', camY', canvasW, canvasH,
                                             wallImg, floorImg,
                                             imageCheckedFirst)
            IN  \* the sprite is drawn after drawRoom, if that has not
                \* thrown; an exception in drawRoom or at img.width ends
                \* the loop: the closing requestAnimationFrame(draw) is not
                \* reached
                /\ img' = IF chosen = NoFrame \/ roomThrows
                             THEN NoFrame
                             ELSE Append(chosen, mirrored(up.facing))
                /\ rafPending' = ~(roomThrows \/ chosen = NoFrame)
         /\ rafCount' = rafCount - 1 + (IF rafPending' THEN 1 ELSE 0)
  /\ jumpTicks' = IF isJumping THEN jumpTicks + 1 ELSE jumpTicks
  /\ ticksSince' = ticksSince + 1
  /\ ticks' = ticks + 1
  /\ lastOp' = "draw"
  /\ UNCHANGED <<loadVars, canvasW, canvasH, targetX, targetY, worldX,
                 pointerActive, lastTapTime, tapY, throwStart, x0, y0, events,
                 probe>>

----------------------------------------------------------------------------
\* Spec: loading in path order, then taps, moves and frames up to MaxTime.
\* The taps are doubleTapWindow apart, so each is a jump or a walk command.

Next ==
  \/ \E k \in Categories, i \in 1..3 : InPathOrder(k, i) /\ ImageLoaded(k, i)
  \/ \E dt \in TapDts, cx \in ClientXs, cy \in ClientYs :
       /\ now + dt <= MaxTime
       /\ events < MaxEvents
       /\ PointerDownJump(dt, cx, cy)
  \/ \E dt \in TapDts, cx \in ClientXs, cy \in ClientYs :
       /\ now + dt <= MaxTime
       /\ events < MaxEvents
       /\ PointerDownWalk(dt, cx, cy)
  \/ \E cx \in MoveXs : events < MaxEvents /\ PointerMove(cx)
  \/ events < MaxEvents /\ PointerUp
  \/ events < MaxEvents /\ PointerCancel
  \/ \E dt \in TickDts :
       /\ now + dt <= MaxTime
       /\ ticks < MaxTicks
       /\ Tick(dt)

Spec == Init /\ [][Next]_vars

----------------------------------------------------------------------------
\* EdgeSpec: a viewport as wide as the world (the camera stays at 0) or 100 px
\* narrower (the camera follows the sprite), walk commands toward either end
\* of the viewport, and the whole walk.

EdgeInit ==
  \E w \in EdgeWidths, h \in Heights : InitWith(w, h) /\ probe = None

EdgeNext ==
  \/ \E k \in Categories, i \in 1..3 : InPathOrder(k, i) /\ ImageLoaded(k, i)
  \/ \E dt \in TapDts, cx \in EdgeXs(canvasW), cy \in EdgeYs :
       /\ now + dt <= EdgeTapDeadline
       /\ events < EdgeMaxEvents
       /\ PointerDownWalk(dt, cx, cy)
  \/ \E cx \in EdgeXs(canvasW) :
       /\ now <= EdgeTapDeadline
       /\ events < EdgeMaxEvents
       /\ PointerMove(cx)
  \/ now <= EdgeTapDeadline /\ events < EdgeMaxEvents /\ PointerUp
  \/ now <= EdgeTapDeadline /\ events < EdgeMaxEvents /\ PointerCancel
  \/ \E dt \in TickDts : now + dt <= EdgeMaxTime /\ Tick(dt)

EdgeSpec == EdgeInit /\ [][EdgeNext]_vars

----------------------------------------------------------------------------
\* FacingSpec: determineFacing applied to every displacement of a grid.

Probe ==
  /\ probe.facing = None
  /\ probe' = [probe EXCEPT !.facing = determineFacing(probe.dx, probe.dy)]
  /\ UNCHANGED <<images, missing, loadedCount, rafPending, rafCount, wallImg,
                 floorImg, imageCheckedFirst, viewVars, x, y, walkVars,
                 jumpVars, throwVars, animVars, pointerActive, lastTapTime,
                 tapY, now, lastOp, x0, y0, ticksSince, ticks, events>>

FacingInit ==
  \E w \in Widths, h \in Heights,
     dx \in (-MaxProbe)..MaxProbe, dy \in (-MaxProbe)..MaxProbe :
       /\ InitWith(w, h)
       /\ probe = [dx |-> dx, dy |-> dy, facing |-> None]

FacingNext == Probe

FacingSpec == FacingInit /\ [][FacingNext]_vars

----------------------------------------------------------------------------
\* JumpFairSpec: from the moment the last frame has loaded, jump and walk
\* commands and frames, with the animation loop running: a scheduled
\* requestAnimationFrame callback is eventually called.

FairTick == \E dt \in TickDts : ticks < JumpMaxTicks /\ Tick(dt)

JumpInit == \E w \in Widths, h \in Heights : LoadedWith(w, h) /\ probe = None

JumpNext ==
  \/ \E dt \in TapDts, cx \in MoveXs, cy \in ClientYs :
       now + dt <= JumpTapDeadline /\ PointerDownJump(dt, cx, cy)
  \/ \E dt \in TapDts, cx \in MoveXs, cy \in ClientYs :
       now + dt <= JumpTapDeadline /\ PointerDownWalk(dt, cx, cy)
  \/ FairTick

JumpFairSpec == JumpInit /\ [][JumpNext]_vars /\ WF_vars(FairTick)

----------------------------------------------------------------------------
\* ThrowSpec: from the moment the last frame has loaded, single and double
\* taps (throws, jumps, walk commands), pointer moves and frames.

ThrowInit == \E w \in Widths, h \in Heights : LoadedWith(w, h) /\ probe = None

ThrowNext ==
  \/ \E dt \in ThrowTapDts, cx \in ThrowXs, cy \in ClientYs :
       /\ now + dt <= ThrowMaxTime
       /\ events < ThrowMaxEvents
       /\ PointerDownThrow(dt, cx, cy)
  \/ \E dt \in ThrowTapDts, cx \in ThrowXs, cy \in ClientYs :
       /\ now + dt <= ThrowMaxTime
       /\ events < ThrowMaxEvents
       /\ PointerDownJump(dt, cx, cy)
  \/ \E dt \in ThrowTapDts, cx \in ThrowXs, cy \in ClientYs :
       /\ now + dt <= ThrowMaxTime
       /\ events < ThrowMaxEvents
       /\ PointerDownWalk(dt, cx, cy)
  \/ \E cx \in MoveXs : events < ThrowMaxEvents /\ PointerMove(cx)
  \/ events < ThrowMaxEvents /\ PointerUp
  \/ events < ThrowMaxEvents /\ PointerCancel
  \/ \E dt \in TickDts :
       /\ now + dt <= ThrowMaxTime
       /\ ticks < ThrowMaxTicks
       /\ Tick(dt)

ThrowSpec == ThrowInit /\ [][ThrowNext]_vars

----------------------------------------------------------------------------
\* StarSpec: walk commands and throws in the first StarTapDeadline ms, then
\* the whole flight of the star.

StarNext ==
  \/ \E dt \in ThrowTapDts, cx \in ThrowXs, cy \in ClientYs :
       now + dt <= StarTapDeadline /\ PointerDownThrow(dt, cx, cy)
  \/ \E dt \in ThrowTapDts, cx \in ThrowXs, cy \in ClientYs :
       now + dt <= StarTapDeadline /\ PointerDownWalk(dt, cx, cy)
  \/ \E dt \in TickDts : ticks < StarMaxTicks /\ Tick(dt)

StarSpec == ThrowInit /\ [][StarNext]_vars

----------------------------------------------------------------------------
\* CameraSpec: window resizes, jumps, walk commands and frames.

CameraNext ==
  \/ \E w \in CamWidths, h \in CamHeights : Resize(w, h)
  \/ \E dt \in TapDts, cx \in ClientXs, cy \in ClientYs :
       events < CamMaxEvents /\ PointerDownJump(dt, cx, cy)
  \/ \E dt \in TapDts, cx \in ClientXs, cy \in ClientYs :
       events < CamMaxEvents /\ PointerDownWalk(dt, cx, cy)
  \/ \E dt \in TickDts : ticks < CamMaxTicks /\ Tick(dt)

CameraSpec == ThrowInit /\ [][CameraNext]_vars

----------------------------------------------------------------------------
\* LoadSpec: the frame images load in any order while pointer events come
\* in; the jump and throw images may be missing, and then never load.

LoadInit ==
  \E w \in Widths, h \in Heights, m \in MissingSets :
    /\ images = [k \in Categories |-> <<>>]
    /\ missing = m
    /\ loadedCount = 0
    /\ rafPending = FALSE
    /\ rafCount = 0
    /\ lastOp = "init"
    /\ imageCheckedFirst = TRUE
    /\ SpriteInit(w, h)
    /\ probe = None

LoadNext ==
  \/ \E k \in Categories, i \in 1..3 : ImageLoaded(k, i)
  \/ \E dt \in ThrowTapDts, cx \in MoveXs, cy \in ClientYs :
       events < LoadMaxEvents /\ PointerDown(dt, cx, cy)
  \/ \E dt \in TickDts : ticks < LoadMaxTicks /\ Tick(dt)

LoadSpec == LoadInit /\ [][LoadNext]_vars

----------------------------------------------------------------------------
\* FrameSpec: animation frames at uneven intervals, a few pointer-downs in
\* between.

FrameNext ==
  \/ \E dt \in TapDts, cx \in MoveXs, cy \in ClientYs :
       /\ now + dt <= FrameMaxTime
       /\ events < FrameMaxEvents
       /\ PointerDownJump(dt, cx, cy)
  \/ \E dt \in TapDts, cx \in MoveXs, cy \in ClientYs :
       /\ now + dt <= FrameMaxTime
       /\ events < FrameMaxEvents
       /\ PointerDownWalk(dt, cx, cy)
  \/ \E dt \in FrameTickDts : now + dt <= FrameMaxTime /\ Tick(dt)

FrameSpec == ThrowInit /\ [][FrameNext]_vars

----------------------------------------------------------------------------
\* RoomSpec: the frames load in path order while the wall and the floor
\* image load or fail at any moment, before or after the loop has started,
\* in a browser of either drawImage order.

RoomInit ==
  \E w \in RoomWidths, h \in Heights, first \in BOOLEAN :
    InitWithOrder(w, h, first) /\ probe = None

RoomNext ==
  \/ \E k \in Categories, i \in 1..3 : InPathOrder(k, i) /\ ImageLoaded(k, i)
  \/ \E r \in {"wall", "floor"}, state \in {"loaded", "broken"} :
       RoomImageSettled(r, state)
  \/ \E dt \in TapDts, cx \in MoveXs, cy \in ClientYs :
       events < RoomMaxEvents /\ PointerDownWalk(dt, cx, cy)
  \/ \E dt \in TickDts : ticks < RoomMaxTicks /\ Tick(dt)

RoomSpec == RoomInit /\ [][RoomNext]_vars

----------------------------------------------------------------------------
\* Properties

leftLimit == cellSize
rightLimit == worldWidth - cellSize
\* setTarget ran in the last handler.
SetTargetRan == lastOp = "walk" \/ (lastOp = "move" /\ pointerActive)
\* Number of draws a jump lasts: the first draw adds -jumpStrength to groundY,
\* each later one a velocity larger by gravity, until it is >= 0.
jumpLength == CeilDiv(jumpStrength, gravity) + 1

\* C1: after any pointer events and draws, x lies within
\* [cellSize, worldWidth - cellSize].
C1_XInWorld == leftLimit <= x /\ x <= rightLimit

\* C1 witness: a walk toward a target proposed left of the world has brought
\* the sprite onto the left limit.
C1_Witness ==
  lastOp = "draw" /\ worldX # NoProposal /\ worldX[1] < leftLimit /\ x = leftLimit

\* C2: whenever the sprite is not jumping, y = groundY and vy = 0 (so vy is
\* nonzero only while jumping).
C2_GroundedWhenNotJumping ==
  /\ ~isJumping => (y = groundY /\ vy = 0)
  /\ vy # 0 => isJumping

\* C2 witness: a jump has run its full course and landed.
C2_Witness ==
  lastOp = "draw" /\ ~isJumping /\ jumpTicks = jumpLength

\* C3: the stored target is the proposed world x clamped to the nearest limit,
\* at ground level, and is inside the limits in every state.
C3_TargetClamped ==
  /\ SetTargetRan => worldX[1] = camX + worldX[2]
  /\ worldX # NoProposal =>
       targetX = (IF worldX[1] < leftLimit THEN leftLimit
                  ELSE IF worldX[1] > rightLimit THEN rightLimit
                  ELSE worldX[1])
  /\ leftLimit <= targetX /\ targetX <= rightLimit
  /\ targetY = groundY

\* C3 witness: a walk command proposed a target right of the right limit.
C3_Witness ==
  lastOp = "walk" /\ worldX # NoProposal /\ worldX[1] > rightLimit /\ targetX = rightLimit

\* C4 as stated: from a point at distance d > 0 from the target, with no
\* pointer event in between, the position (x, y) equals the target exactly from
\* draw number ceil(d / speed) on.
C4_ReachesTargetPoint ==
  LET dx0 == targetX - x0
      dy0 == targetY - y0
      run == speed * ticksSince
  IN  dx0 * dx0 + dy0 * dy0 > 0 =>
        ((run * run >= dx0 * dx0 + dy0 * dy0) <=> (x = targetX /\ y = targetY))

\* C4 amended: with d = |targetX - x| > 0 after a pointer event and no pointer
\* event since, x is `speed` nearer the target after each draw, never past it,
\* equals targetX from draw number ceil(d / speed) on and not earlier; y
\* equals targetY whenever the sprite is not jumping.
C4_ReachesTargetX ==
  LET d == Abs(targetX - x0)
      sign == IF targetX < x0 THEN -1 ELSE 1
  IN  /\ x = (IF ticksSince >= CeilDiv(d, speed)
                THEN targetX ELSE x0 + sign * speed * ticksSince)
      /\ ~isJumping => y = targetY

\* C4 witness: a target 12 px away has been reached by the third draw.
C4_Witness ==
  /\ lastOp = "draw"
  /\ Abs(targetX - x0) = 12 * Unit
  /\ ticksSince = 3
  /\ x = targetX

\* C5: a draw with the sprite on its target and not jumping leaves x, y and
\* the facing as they are.
C5_TickAtTargetIdle ==
  [][(lastOp' = "draw" /\ x = targetX /\ y = targetY /\ ~isJumping)
       => (x' = x /\ y' = y /\ facing' = facing)]_vars

\* C5 witness: two draws have run on the target since a walk command that put
\* the target on the sprite, which still faces right after them.
C5_Witness ==
  /\ lastOp = "draw"
  /\ ticksSince >= 2
  /\ worldX # NoProposal
  /\ x0 = targetX
  /\ ~isJumping /\ jumpTicks = 0
  /\ facing = "right"

\* C6: determineFacing is right/left by the sign of dx when |dx| > |dy|, and
\* front/back by the sign of dy otherwise, ties included.
C6_DetermineFacing ==
  probe.facing # None =>
    LET dx == probe.dx
        dy == probe.dy
    IN  /\ (Abs(dx) > Abs(dy) /\ dx >= 0) => probe.facing = "right"
        /\ (Abs(dx) > Abs(dy) /\ dx < 0) => probe.facing = "left"
        /\ (Abs(dx) <= Abs(dy) /\ dy >= 0) => probe.facing = "front"
        /\ (Abs(dx) <= Abs(dy) /\ dy < 0) => probe.facing = "back"

\* C6 witness: a tie with negative components has been decided vertically.
C6_Witness ==
  probe.facing = "back" /\ probe.dx = -3 /\ probe.dy = -3

\* C7 as stated: right after setTarget the facing is the dominance rule
\* applied to target - position.
C7_FacingByDominance ==
  SetTargetRan => facing = determineFacing(targetX - x, targetY - y)

\* C7 amended: right after setTarget the facing is right when
\* targetX - x >= 0 and left otherwise, whatever the vertical offset; a target
\* on the sprite's own x gives right.
C7_FacingByHorizontalSign ==
  SetTargetRan =>
    /\ targetX - x >= 0 => facing = "right"
    /\ targetX - x < 0 => facing = "left"

\* C7 witness: a walk command whose clamped target is the sprite's position.
C7_Witness ==
  lastOp = "walk" /\ targetX = x /\ targetY = y /\ facing = "right"

\* C8: while jumping, a draw adds the velocity held before it to y (or lands
\* when that reaches groundY) and adds gravity to the velocity.
C8_EulerOnHeight ==
  [][(lastOp' = "draw" /\ isJumping)
       => IF y + vy >= groundY
            THEN (y' = groundY /\ vy' = 0 /\ ~isJumping')
            ELSE (y' = y + vy /\ vy' = vy + gravity /\ isJumping')]_vars

\* C9: the sprite is never below the ground, and a jump in progress with the
\* animation loop running ends on the ground with vy = 0.
C9_JumpTerminates ==
  /\ [](y <= groundY)
  /\ (isJumping /\ rafPending /\ ticks + jumpLength <= JumpMaxTicks)
       ~> (~isJumping /\ y = groundY /\ vy = 0)

\* C9 witness: a jump has landed after pointer events came in during it.
C9_Witness ==
  /\ lastOp = "draw"
  /\ ~isJumping /\ jumpTicks = jumpLength
  /\ y = groundY /\ vy = 0
  /\ events >= 2 /\ ticksSince < jumpLength

\* C10: a jump request while jumping changes neither vy, the position nor the
\* flag; otherwise it sets the flag and vy = -jumpStrength.
C10_StartJump ==
  [][lastOp' = "jump"
       => IF isJumping
            THEN (isJumping' /\ vy' = vy /\ x' = x /\ y' = y)
            ELSE (isJumping' /\ vy' = -jumpStrength /\ x' = x /\ y' = y)]_vars

\* C10 witness: a jump request came in mid-air and the velocity is the one
\* the jump had reached.
C10_Witness ==
  lastOp = "jump" /\ isJumping /\ jumpTicks > 0 /\ vy # -jumpStrength

\* C11: a throw request while the star is in flight leaves the star where it
\* is, with the velocity it has.
C11_ThrowKeepsStarInFlight ==
  [][(lastOp' = "throw" /\ star.active) => star' = star]_vars

\* C12 as stated: a spawned star is at the sprite's x, 0.3 cell above its y,
\* with velocity +12 when the sprite faces right and -12 for any other facing.
C12_SpawnLeftUnlessRight ==
  [][(lastOp' = "throw" /\ ~isThrowing)
       => /\ star'.active
          /\ star'.x = x
          /\ star'.y = y - (3 * cellSize) \div 10
          /\ star'.vx = (IF facing = "right" THEN 12 * Unit ELSE -12 * Unit)]_vars

\* C12 amended: a spawned star is at the sprite's x, 0.3 cell above its y,
\* with velocity -12 when the sprite faces left and +12 for any other facing,
\* the initial front included.
C12_SpawnRightUnlessLeft ==
  [][(lastOp' = "throw" /\ ~isThrowing)
       => /\ star'.active
          /\ star'.x = x
          /\ star'.y = y - (3 * cellSize) \div 10
          /\ star'.vx = (IF facing = "left" THEN -12 * Unit ELSE 12 * Unit)]_vars

\* C12 witness: a star has just been spawned by a sprite in mid-jump that
\* faces front, and flies right.
C12_Witness ==
  /\ lastOp = "throw" /\ starAge = <<x, 0>>
  /\ facing = "front" /\ isJumping /\ y < groundY
  /\ star.active /\ star.vx = 12 * Unit /\ star.y = y - 24 * Unit

\* C13 as stated: a star spawned at x0 with vx > 0 is active before draw
\* number ceil((worldWidth - x0) / vx) since the spawn, and inactive from it.
C13_ExpiresAtCeil ==
  (starAge # NoSpawn /\ star.vx > 0) =>
    (star.active <=> starAge[2] < CeilDiv(worldWidth - starAge[1], star.vx))

\* C13 amended: such a star is active before draw number
\* floor((worldWidth - x0) / vx) + 1 since the spawn, and inactive from it: a
\* star that lands exactly on worldWidth is still active.
C13_ExpiresPastEdge ==
  (starAge # NoSpawn /\ star.vx > 0) =>
    /\ star.active <=> starAge[2] < (worldWidth - starAge[1]) \div star.vx + 1
    /\ star.x = starAge[1] + starAge[2] * star.vx
    /\ star.active <=> star.x <= worldWidth

\* C13 witness: a star spawned at the start position 2400 has expired, on its
\* draw number 201.
C13_Witness ==
  /\ starAge = <<startX, 201>>
  /\ star.vx = 12 * Unit
  /\ ~star.active

\* C14: after a draw the camera offset on each axis is the sprite's position
\* minus half the viewport, clamped to [0, max(0, world - viewport)]; it is
\* never negative, and 0 when the world is narrower than the viewport.
C14_CameraClamped ==
  LET clamp(v, lo, hi) == IF v < lo THEN lo ELSE IF v > hi THEN hi ELSE v
      half(n) == n \div 2
  IN  /\ camX >= 0 /\ camY >= 0
      /\ lastOp = "draw" =>
           /\ 2 * half(canvasW) = canvasW /\ 2 * half(canvasH) = canvasH
           /\ camX = clamp(x - half(canvasW), 0,
                           IF worldWidth > canvasW THEN worldWidth - canvasW ELSE 0)
           /\ camY = clamp(y - half(canvasH), 0,
                           IF worldHeight > canvasH THEN worldHeight - canvasH ELSE 0)
           /\ worldWidth < canvasW => camX = 0

\* C14 witness: a draw with the window wider and taller than the world, the
\* sprite off its start position and in mid-jump.
C14_Witness ==
  /\ lastOp = "draw"
  /\ canvasW > worldWidth /\ canvasH > worldHeight
  /\ x # startX /\ y < groundY
  /\ camX = 0 /\ camY = 0

\* C15: no draw runs before every frame of every category has loaded.
C15_NoDrawBeforeAllLoaded ==
  (ticks > 0 \/ lastOp = "draw") =>
    /\ loadedCount = totalFrames
    /\ \A k \in Categories : Len(images[k]) = framePaths[k]

\* C15 witness: the first draw has run, after pointer events and loads that
\* did not complete in the order of the paths.
C15_Witness ==
  /\ lastOp = "draw" /\ ticks = 1
  /\ events > 0
  /\ images["front"] = <<3, 1, 2>>

\* C16: when the jump or throw image is missing and every other frame has
\* loaded, the animation loop is running.
C16_LoopRunsWithoutOverlayFrames ==
  (/\ missing # {}
   /\ \A k \in Categories \ missing : Len(images[k]) = framePaths[k])
    => (rafPending /\ \A k \in missing : images[k] = <<>>)

\* C17: each pointer-down triggers exactly one command: a throw if it comes
\* less than 300 ms after the previous pointer-down, otherwise a jump if its
\* y is in the top 35% of the viewport, otherwise a walk-target update; a
\* throw or a jump leaves the target unchanged and pointerActive false, and
\* a pointer-move after it does not move the target.
C17_PointerDownDispatch ==
  [][/\ lastTapTime' # lastTapTime =>
          LET previous == tapY # NoTap
              cmd == IF previous /\ now' - lastTapTime < doubleTapWindow
                       THEN "throw"
                     ELSE IF tapY'[1] * Unit * 100 < canvasH * 35
                       THEN "jump"
                     ELSE "walk"
          IN  /\ lastOp' = cmd
              /\ cmd # "throw" => UNCHANGED <<isThrowing, throwTimer, star>>
              /\ cmd # "jump" => UNCHANGED <<isJumping, vy>>
              /\ cmd # "walk" => /\ UNCHANGED <<targetX, targetY>>
                                 /\ ~pointerActive'
              /\ cmd = "walk" => pointerActive' /\ worldX' # NoProposal
     /\ (lastOp' = "move" /\ ~pointerActive) => UNCHANGED <<targetX, targetY>>
    ]_vars


\* The walk of the end-to-end scenario: one pointer event so far, a walk
\* command from the start position onto world x = 100.
WalkTo100 ==
  /\ events = 1
  /\ lastOp \in {"walk", "draw"}
  /\ worldX # NoProposal /\ worldX[1] = 100 * Unit
  /\ x0 = startX

\* C18 as stated: the actor starts on the ground at (2400, 800), is sent to
\* (100, 800), faces left from the tap on, and x decreases by the speed per
\* tick to exactly 100 and holds there.
C18_WalkFromY800 ==
  WalkTo100 =>
    /\ y0 = 800 * Unit /\ targetY = 800 * Unit
    /\ facing = "left"
    /\ x = Max(100 * Unit, startX - speed * ticksSince)

\* C18 amended: the ground of the 60x12 world is at y = 840; the actor
\* starts at (2400, 840), the target is (100, 840), the actor faces left
\* from the tap on and on every later tick, and x decreases by the speed per
\* tick to exactly 100 and holds there.
C18_WalkFromGround ==
  WalkTo100 =>
    /\ y0 = 840 * Unit /\ y = y0
    /\ targetX = 100 * Unit /\ targetY = 840 * Unit
    /\ facing = "left"
    /\ x = Max(100 * Unit, startX - speed * ticksSince)

\* C18 witness: the actor has been standing on x = 100 for ten ticks.
C18_Witness ==
  WalkTo100 /\ ticksSince = 470 /\ x = 100 * Unit /\ facing = "left"


\* C19: the frame a draw selects is the throw frame while throwing (even
\* when jumping too), else the jump frame while jumping, else the frame
\* frameIndex modulo the frame count of side (facing left or right), front
\* (facing front) or back; it is mirrored exactly when the facing is left.
\* The throwing flag is the one the draw starts with; the jumping flag, the
\* facing and the frame index are those the draw has just computed.
C19_FramePrecedence ==
  [][ticks' = ticks + 1 =>
       LET cat == IF isThrowing THEN "throw"
                  ELSE IF isJumping' THEN "jump"
                  ELSE IF facing' \in {"left", "right"} THEN "side"
                  ELSE IF facing' = "front" THEN "front"
                  ELSE "back"
           idx == IF cat \in {"throw", "jump"}
                    THEN 0 ELSE frameIndex' % framePaths[cat]
       IN  img' = <<cat, idx, facing' = "left">>
    ]_vars

\* C19 witness: a draw chose the throw frame while the sprite was jumping
\* and throwing, and drew it mirrored.
C19_Witness ==
  /\ lastOp = "draw" /\ isJumping /\ isThrowing
  /\ img = <<"throw", 0, TRUE>>


\* C20: frameIndex never decreases and changes by at most one per step; it
\* changes only in a draw whose timestamp is more than 250 ms after the last
\* frame change, and then lastFrameTime becomes that timestamp; otherwise
\* lastFrameTime keeps its value.
C20_FrameAdvance ==
  [][/\ frameIndex' \in {frameIndex, frameIndex + 1}
     /\ frameIndex' # frameIndex =>
          /\ ticks' = ticks + 1
          /\ now' - lastFrameTime > 250
          /\ lastFrameTime' = now'
     /\ frameIndex' = frameIndex => lastFrameTime' = lastFrameTime
    ]_vars

\* C20 witness: a draw exactly 250 ms after the second frame change, which
\* left the frame index alone.
C20_Witness ==
  /\ lastOp = "draw" /\ frameIndex = 2
  /\ now - lastFrameTime = 250


\* C21: a throw request while the sprite is throwing changes neither
\* isThrowing nor the throw timer nor the star; otherwise it sets isThrowing,
\* resets the timer to 0 and spawns the star at the sprite, flying the way
\* the sprite faces.
C21_StartThrow ==
  [][lastOp' = "throw" =>
       IF isThrowing
         THEN UNCHANGED <<isThrowing, throwTimer, star>>
         ELSE /\ isThrowing' /\ throwTimer' = 0
              /\ star'.active /\ star'.x = x
              /\ (star'.vx < 0) <=> (facing = "left")
    ]_vars

\* C21 witness: a throw request came while the pose was in progress, with
\* time on the throw timer and the star in flight away from the sprite.
C21_Witness ==
  /\ lastOp = "throw" /\ isThrowing /\ throwTimer > 0
  /\ star.active /\ star.x # x


\* C22: the throw pose lasts throwDuration ms: isThrowing is cleared only by
\* a draw whose timestamp is more than 400 ms after the startThrow that set
\* it, so it is still set after every draw up to 400 ms after that.
C22_PoseLastsThrowDuration ==
  [][(isThrowing /\ ~isThrowing') =>
       /\ ticks' = ticks + 1
       /\ now' - throwStart[1] > throwDuration
    ]_vars


\* C23: x, y, the camera offset and frameIndex change only in a draw, never
\* in a pointer handler; and a draw computes the camera offset from the
\* position it has just updated.
C23_OnlyDrawMoves ==
  [][IF ticks' = ticks + 1
       THEN /\ camX' = cameraOffset(x', canvasW, worldWidth)
            /\ camY' = cameraOffset(y', canvasH, worldHeight)
       ELSE UNCHANGED <<x, y, camX, camY, frameIndex>>
    ]_vars

\* C23 witness: a pointer handler has just run while the sprite was walking
\* and in mid-jump, off its start position, with the camera following it.
C23_Witness ==
  /\ lastOp \in {"throw", "jump", "walk", "move", "up", "cancel"}
  /\ x # startX /\ x # targetX /\ y # groundY
  /\ camX = x - canvasW \div 2 /\ frameIndex > 0


\* C24: a draw reads the size of the wall image, and hands it to drawImage,
\* only when the image has loaded; likewise the floor image.
C24_UnloadedRoomImageSkipped ==
  lastOp = "draw" =>
    /\ "wall" \in roomUse => wallImg = "loaded"
    /\ "floor" \in roomUse => floorImg = "loaded"


\* C25: in every draw, jumping or throwing or neither, x moves one speed
\* step toward targetX, or onto it when it is within one step, and the
\* facing follows the direction of travel while x is off the target.
C25_SeekDespiteOverlay ==
  [][ticks' = ticks + 1 =>
       LET dx == targetX - x
       IN  /\ x' = IF dx > speed THEN x + speed
                   ELSE IF dx < -speed THEN x - speed
                   ELSE targetX
           /\ facing' = IF dx > 0 THEN "right"
                        ELSE IF dx < 0 THEN "left"
                        ELSE facing
    ]_vars

\* C25 witness: a draw moved the sprite one step toward its target while it
\* was both in mid-jump and throwing.
C25_Witness ==
  /\ lastOp = "draw" /\ isJumping /\ isThrowing
  /\ y < groundY /\ x # targetX
  /\ ticksSince > 0 /\ Abs(x - x0) = speed * ticksSince


\* C26: every load completion puts its frame at the end of its category's
\* sequence, a frame that is not yet in it, and nothing else changes the
\* sequences: each is ordered by completion, each frame once.
C26_FramesInCompletionOrder ==
  [][\A k \in Categories :
       \/ images'[k] = images[k]
       \/ /\ lastOp' = "load" /\ loadedCount' = loadedCount + 1
          /\ \E i \in 1..framePaths[k] :
               /\ \A n \in 1..Len(images[k]) : images[k][n] # i
               /\ images'[k] = Append(images[k], i)
          /\ \A other \in Categories \ {k} : images'[other] = images[other]
    ]_vars

\* C26 witness: all frames have loaded, the front and back frames in orders
\* that differ from the order of their paths.
C26_Witness ==
  /\ loadedCount = totalFrames
  /\ images["front"] = <<2, 3, 1>>
  /\ images["back"] = <<3, 2, 1>>
  /\ images["side"] = <<2, 1>>


\* C27: a pointer-down triggers a throw only when an earlier pointer-down
\* came less than 300 ms before it; the first pointer-down never does.
C27_ThrowNeedsEarlierTap ==
  [][lastOp' = "throw" =>
       /\ tapY # NoTap
       /\ now' - lastTapTime < doubleTapWindow
    ]_vars


\* C28 as stated: a draw that finds the target off the sprite's position
\* sets the facing by the dominance rule on the displacement in x and y.
C28_TickFacingByDominance ==
  [][(ticks' = ticks + 1 /\ (targetX # x \/ targetY # y)) =>
       facing' = determineFacing(targetX - x, targetY - y)
    ]_vars

\* C28 amended: a draw that finds targetX off the sprite's x sets the facing
\* to right when targetX - x > 0 and to left otherwise, whatever the
\* vertical offset; a draw that finds targetX = x leaves the facing as it
\* is, in mid-jump too; front and back are never chosen by a draw.
C28_TickFacingByHorizontalSign ==
  [][ticks' = ticks + 1 =>
       /\ targetX > x => facing' = "right"
       /\ targetX < x => facing' = "left"
       /\ targetX = x => facing' = facing
    ]_vars

\* C28 witness: after a draw the sprite, in mid-jump, faces left although
\* its vertical offset from the target was at least the horizontal one.
C28_Witness ==
  /\ lastOp = "draw" /\ isJumping /\ facing = "left"
  /\ y0 < groundY /\ ticksSince = 1 /\ x = x0 - speed
  /\ groundY - y0 >= x0 - targetX


\* C29: the frame a draw selects is defined: its category's list is not
\* empty and its index is within the list.
C29_SelectedFrameDefined ==
  lastOp = "draw" =>
    /\ img # NoFrame
    /\ img[1] \in Categories
    /\ Len(images[img[1]]) > 0
    /\ img[2] \in 0..(Len(images[img[1]]) - 1)

\* C29 witness: a draw with frameIndex 2 selected frame 0 of the two side
\* frames, which had loaded in reverse order.
C29_Witness ==
  /\ lastOp = "draw" /\ frameIndex = 2
  /\ img # NoFrame /\ img[1] = "side" /\ img[2] = 0
  /\ images["side"] = <<2, 1>>


\* C30: at most one draw callback is ever pending; the first is requested by
\* the load that brings loadedCount to totalFrames and by no other handler;
\* every draw runs the one pending callback and requests exactly one
\* successor, so x moves at most one speed step per draw.
C30_OneLoop ==
  [][/\ rafCount' <= 1
     /\ rafPending' <=> rafCount' = 1
     /\ (loadedCount < totalFrames /\ loadedCount' = totalFrames)
          => (rafCount = 0 /\ rafCount' = 1)
     /\ rafCount' > rafCount
          => (lastOp' = "load" /\ loadedCount' = totalFrames)
     /\ ticks' = ticks + 1
          => (rafCount = 1 /\ rafCount' = 1 /\ Abs(x' - x) <= speed)
    ]_vars


\* C31: a pointer-move while pointerActive is false changes no variable of
\* the program; while pointerActive is true it sets the target to the
\* pointer's world x clamped into the world, on the ground, and the facing to
\* right when the target is not left of the sprite and to left otherwise,
\* and changes nothing else.
C31_PointerMove ==
  [][(lastOp' = "move" /\ events' = events + 1) =>
       /\ UNCHANGED <<images, loadedCount, rafPending, wallImg, floorImg,
                      canvasW, canvasH, camX, camY, x, y, frameIndex,
                      lastFrameTime, pointerActive, isJumping, vy, isThrowing,
                      throwTimer, lastTapTime, star>>
       /\ IF pointerActive
            THEN /\ targetX' = Min(Max(camX + worldX'[2], cellSize),
                                   worldWidth - cellSize)
                 /\ targetY' = groundY
                 /\ facing' = IF targetX' >= x THEN "right" ELSE "left"
            ELSE UNCHANGED <<targetX, targetY, facing>>
    ]_vars

\* C31 witness: a pointer-move came after a pointer-down that was dispatched
\* as a throw, while the sprite was walking left and throwing, and left the
\* target and the facing alone.
C31_Witness ==
  /\ lastOp = "move" /\ ~pointerActive /\ tapY # NoTap
  /\ isThrowing /\ star.active
  /\ targetX < x /\ facing = "left" /\ x < startX

====
